---- MODULE Spec2Model ----
(***************************************************************************)
(* A model of the streaming scanner of src/scanner.ts: the chunked input   *)
(* cursor (peek / next) and the token classifier (scan).  A character is a *)
(* one-character string, a text is a sequence of characters, a byte of the *)
(* ASCII range is the character it encodes, a 32-bit mode mask is the set  *)
(* of the positions of its set bits.                                       *)
(***************************************************************************)
EXTENDS Integers, Sequences, FiniteSets, TLC

VARIABLES
  reader,        \* the chunks of bytes the Deno.Reader will still deliver
  buffer,        \* #buffer
  bufPos,        \* #bufPos
  line,          \* #line
  column,        \* #column
  contents,      \* contents
  currentToken,  \* currentToken
  startPos,      \* startPos
  mode,          \* mode, as the constructor stored it
  initMode,      \* history: init.mode as given to the constructor
  chunks,        \* history: the reader's deliveries as of construction
  results,       \* history: the outcome of every scan() call so far
  minRead,       \* history: init.minRead as given to the constructor
  generator,     \* the state of the generator scanner[Symbol.asyncIterator]()
  yielded,       \* history: what the generator has yielded so far
  nextTokenIsCalls  \* history: every nextTokenIs() call and what it threw

vars == <<reader, buffer, bufPos, line, column, contents, currentToken,
          startPos, mode, initMode, chunks, results, minRead, generator,
          yielded, nextTokenIsCalls>>

-----------------------------------------------------------------------------
(* Bounds of the model *)

\* longest source of the general specification
MaxLen == 3
\* longest source when every category is enabled
MaxLenAll == 4
\* longest source of string literals
MaxLenStr == 5
\* longest source of digits and decimal points
MaxLenNum == 7
\* scan() calls made after the first eof
MaxEof == 2

-----------------------------------------------------------------------------
(* Token, mode bits *)

Null == "null"

MIN_READ == 2

Token == {"eof", "token", "whitespace", "identifier", "keyword", "int",
          "float", "string", "comment"}

\* Token.x as a number: eof = -1, token = 0, whitespace = 1, ...
TokenValue(t) ==
  CASE t = "eof" -> -1
    [] t = "token" -> 0
    [] t = "whitespace" -> 1
    [] t = "identifier" -> 2
    [] t = "keyword" -> 3
    [] t = "int" -> 4
    [] t = "float" -> 5
    [] t = "string" -> 6
    [] t = "comment" -> 7

\* 1 << -n: the shift count is taken modulo 32, so the result is bit (32 - n)
ShiftLeftOneByMinus(n) == {(32 - n) % 32}

scanWhitespace == ShiftLeftOneByMinus(TokenValue("whitespace"))
scanIdents == ShiftLeftOneByMinus(TokenValue("identifier"))
scanInts == ShiftLeftOneByMinus(TokenValue("int"))
scanFloats == ShiftLeftOneByMinus(TokenValue("float"))
scanStrings == ShiftLeftOneByMinus(TokenValue("string"))
scanComments == ShiftLeftOneByMinus(TokenValue("comment"))
\* (a variant of defaultTokens: comments are returned by default)
defaultTokensAndComments ==
  scanIdents \cup scanFloats \cup scanStrings \cup scanComments

defaultTokens == scanIdents \cup scanFloats \cup scanStrings

\* a & b is truthy
BitAnd(a, b) == (a \cap b) # {}

\* this.mode = init.mode || defaultTokens
ConstructorMode(m) == IF m = {} THEN defaultTokens ELSE m

-----------------------------------------------------------------------------
(* The default predicates *)

Upper == {"A", "B", "C", "D", "E", "F", "G", "H", "I", "J", "K", "L", "M",
          "N", "O", "P", "Q", "R", "S", "T", "U", "V", "W", "X", "Y", "Z"}
Lower == {"a", "b", "c", "d", "e", "f", "g", "h", "i", "j", "k", "l", "m",
          "n", "o", "p", "q", "r", "s", "t", "u", "v", "w", "x", "y", "z"}
Digit == {"0", "1", "2", "3", "4", "5", "6", "7", "8", "9"}

isWhitespace(ch) == ch \in {" ", "\t", "\n", "\r"}

isIdent(ch, i) ==
  \/ ch \in Upper
  \/ ch \in Lower
  \/ (i > 0 /\ (ch = "_" \/ ch \in Digit))

\* the backtick character, which a TLA+ string cannot hold
Backtick == "backtick"

isStringDelimiter(ch) == ch \in {"\"", "'", Backtick}

isDecimal(ch) == ch \in Digit

isSign(ch) == ch \in {"+", "-"}

isHex(ch, i) ==
  IF i = 0 THEN ch = "0"
  ELSE IF i = 1 THEN ch \in {"x", "X"}
  ELSE ch \in Digit \cup {"A", "B", "C", "D", "E", "F"}
                    \cup {"a", "b", "c", "d", "e", "f"}

isOctal(ch, i) ==
  IF i = 0 THEN ch = "0"
  ELSE IF i = 1 THEN ch \in {"o", "O"}
  ELSE ch \in {"0", "1", "2", "3", "4", "5", "6", "7", "8"}

isBinary(ch, i) ==
  IF i = 0 THEN ch = "0"
  ELSE IF i = 1 THEN ch \in {"b", "B"}
  ELSE ch \in {"0", "1"}

isENotation(ch) == ch \in {"E", "e"}

isComment(ch, i) == IF i = 0 \/ i = 1 THEN ch = "/" ELSE ch # "\n"

isBlockCommentOpen(ch, i) ==
  IF i = 0 THEN ch = "/" ELSE IF i = 1 THEN ch = "*" ELSE FALSE

isBlockCommentClose(ch, i) ==
  IF i = 0 THEN ch = "*" ELSE IF i = 1 THEN ch = "/" ELSE FALSE

\* token === null, for a token that is a string
isKeyword(token) == FALSE

-----------------------------------------------------------------------------
(* The chunked input cursor.  A scanner state s is a record of the fields  *)
(* reader, buffer, bufPos, line, column, contents, startPos, currentToken, *)
(* mode.                                                                  *)

\* The two bytes of the UTF-8 encoding of one character outside ASCII
\* (C3 A9 for U+00E9), that character, and the replacement character.
LeadByte == "byte C3"
ContinuationByte == "byte A9"
TwoByteChar == "U+00E9"
Replacement == "U+FFFD"

RECURSIVE decode(_)
\* decoder.decode(bytes) of a TextDecoder("utf-8"), each call on its own
\* (no stream option): a lead byte without its continuation byte, at the end
\* of the bytes too, and a continuation byte without a lead byte decode to
\* the replacement character.
decode(bytes) ==
  IF bytes = <<>> THEN <<>>
  ELSE IF Head(bytes) = LeadByte
  THEN IF Len(bytes) >= 2 /\ bytes[2] = ContinuationByte
       THEN <<TwoByteChar>> \o decode(SubSeq(bytes, 3, Len(bytes)))
       ELSE <<Replacement>> \o decode(Tail(bytes))
  ELSE IF Head(bytes) = ContinuationByte
  THEN <<Replacement>> \o decode(Tail(bytes))
  ELSE <<Head(bytes)>> \o decode(Tail(bytes))

\* One read of the underlying reader: null for no chunk or for zero bytes,
\* else the chunk decoded.
defaultRead(rd) ==
  IF rd = <<>> THEN [chunk |-> <<>>, isNull |-> TRUE, reader |-> rd]
  ELSE [chunk |-> decode(Head(rd)), isNull |-> Head(rd) = <<>>,
        reader |-> Tail(rd)]

RECURSIVE Refill(_, _)
\* while (this.#buffer.length < MIN_READ) { read; if null break; append }
Refill(rd, buf) ==
  IF Len(buf) < MIN_READ
  THEN LET r == defaultRead(rd)
       IN IF r.isNull THEN [reader |-> r.reader, buffer |-> buf]
          ELSE Refill(r.reader, buf \o r.chunk)
  ELSE [reader |-> rd, buffer |-> buf]

\* The scanner after peek(): the buffer is refilled when it is used up.
peek(s) ==
  IF s.bufPos >= Len(s.buffer)
  THEN LET f == Refill(s.reader, <<>>)
       IN [s EXCEPT !.bufPos = 0, !.buffer = f.buffer, !.reader = f.reader]
  ELSE s

\* What peek() returns in a scanner it has left: #buffer[#bufPos] || null
cur(s) ==
  IF s.bufPos < Len(s.buffer) THEN s.buffer[s.bufPos + 1] ELSE Null

\* (a variant of next: a newline does not reset the column)
nextKeepsColumn(s) ==
  LET p == peek(s)
      ch == cur(p)
  IN [p EXCEPT !.bufPos = @ + 1,
               !.line = IF ch = "\n" THEN @ + 1 ELSE @,
               !.column = @ + 1]

\* The scanner after next(); what it returns is cur(peek(s)).
next(s) ==
  LET p == peek(s)
      ch == cur(p)
  IN [p EXCEPT !.bufPos = @ + 1,
               !.line = IF ch = "\n" THEN @ + 1 ELSE @,
               !.column = IF ch = "\n" THEN 0 ELSE @ + 1]

\* A value appended to a string: null is appended as the text "null".
AsText(ch) == IF ch = Null THEN <<"n", "u", "l", "l">> ELSE <<ch>>

\* this.contents += await this.next()
AppendNext(s) ==
  LET ch == cur(peek(s))
  IN [next(s) EXCEPT !.contents = @ \o AsText(ch)]

-----------------------------------------------------------------------------
(* The token classifier: scan() and its loops.  A loop is an operator from *)
(* the scanner before it to the scanner after it.                          *)

NotThrown == [name |-> "none", message |-> ""]

\* throw new Error(message)
Error(message) == [name |-> "Error", message |-> message]

\* (a variant of Return: at the end of input `token` is returned)
ReturnNeverEof(s, tok) ==
  LET t == IF tok = "eof" THEN "token" ELSE tok
  IN [s |-> [s EXCEPT !.currentToken = t], ret |-> t, thrown |-> NotThrown]

\* return this.currentToken = tok
Return(s, tok) ==
  [s |-> [s EXCEPT !.currentToken = tok], ret |-> tok, thrown |-> NotThrown]

Throw(s, message) == [s |-> s, ret |-> Null, thrown |-> Error(message)]

\* (a variant of EofColumn: the column is not rolled back)
EofColumnKept(col) == col

\* EOF does not advance the column, so roll it back
EofColumn(col) == col - 1

RECURSIVE WhitespaceLoop(_)
WhitespaceLoop(s) ==
  LET p == peek(s)
      ch == cur(p)
  IN IF ch = Null \/ ~isWhitespace(ch) THEN p
     ELSE WhitespaceLoop(AppendNext(p))

RECURSIVE IdentLoop(_, _)
IdentLoop(s, i) ==
  LET p == peek(s)
      ch == cur(p)
  IN IF ch = Null \/ ~isIdent(ch, i) THEN p
     ELSE IdentLoop(AppendNext(p), i + 1)

\* (a variant of StringEscape: a backslash escapes nothing)
StringEscapeNone(s, ch, delim) == s

\* if (ch === "\\") { const ch = peek(); if (ch === delim) contents += next() }
StringEscape(s, ch, delim) ==
  IF ch = "\\"
  THEN LET q == peek(s)
       IN IF cur(q) = delim THEN AppendNext(q) ELSE q
  ELSE s

\* if (!ch || ch === "\n") throw
StringEnds(ch) == ch = Null \/ ch = "\n"

RECURSIVE StringLoop(_, _)
\* ok is FALSE when the loop throws
StringLoop(s, delim) ==
  LET p == peek(s)
      ch == cur(p)
  IN IF StringEnds(ch) THEN [s |-> p, ok |-> FALSE]
     ELSE LET b == StringEscape(AppendNext(p), ch, delim)
          IN IF ch = delim THEN [s |-> b, ok |-> TRUE]
             ELSE StringLoop(b, delim)

\* The base the integer part locks to on ch at index i; Null for none.
LockBase(ch, i) ==
  IF isHex(ch, i) THEN "isHex"
  ELSE IF isOctal(ch, i) THEN "isOctal"
  ELSE IF isBinary(ch, i) THEN "isBinary"
  ELSE IF isDecimal(ch) THEN "isDecimal"
  ELSE Null

\* check(ch, i)
Check(check, ch, i) ==
  CASE check = "isHex" -> isHex(ch, i)
    [] check = "isOctal" -> isOctal(ch, i)
    [] check = "isBinary" -> isBinary(ch, i)
    [] check = "isDecimal" -> isDecimal(ch)

\* ch === "." && (this.mode & scanFloats)
IsPoint(ch, m) == ch = "." /\ BitAnd(m, scanFloats)

RECURSIVE IntegerPart(_, _, _)
IntegerPart(s, i, check) ==
  LET p == peek(s)
      ch == cur(p)
  IN IF ch = Null THEN [s |-> p, isFloat |-> FALSE]
     ELSE IF IsPoint(ch, p.mode) THEN [s |-> AppendNext(p), isFloat |-> TRUE]
     ELSE LET chk == IF check = Null THEN LockBase(ch, i) ELSE check
          IN IF chk = Null \/ ~Check(chk, ch, i)
             THEN [s |-> p, isFloat |-> FALSE]
             ELSE IntegerPart(AppendNext(p), i + 1, chk)

RECURSIVE FractionalPart(_)
FractionalPart(s) ==
  LET p == peek(s)
      ch == cur(p)
  IN IF ch = Null \/ ~isDecimal(ch) THEN p
     ELSE FractionalPart(AppendNext(p))

RECURSIVE ExponentDigits(_)
ExponentDigits(s) ==
  LET p == peek(s)
      ch == cur(p)
  IN IF ch = Null \/ ~isDecimal(ch) THEN p
     ELSE ExponentDigits(AppendNext(p))

\* The E notation: the scanner after it, and whether it was taken.
ENotation(s) ==
  LET p == peek(s)
      ch == cur(p)
  IN IF ch # Null /\ isENotation(ch) /\ BitAnd(p.mode, scanFloats)
     THEN LET q == peek(AppendNext(p))
              r == IF cur(q) # Null /\ isSign(cur(q)) THEN AppendNext(q) ELSE q
          IN [s |-> ExponentDigits(r), taken |-> TRUE]
     ELSE [s |-> p, taken |-> FALSE]

\* if (contents.length === 1 && isSign(contents)) token else float or int
NumberToken(text, isFloat) ==
  IF Len(text) = 1 /\ isSign(text[1]) THEN "token"
  ELSE IF isFloat THEN "float" ELSE "int"

\* The numeric sub-machine, entered with contents = ch.
Number(s, ch) ==
  LET int == IF ch = "." THEN [s |-> s, isFloat |-> TRUE]
             ELSE IntegerPart(s, 1, Null)
      frac == IF int.isFloat THEN FractionalPart(int.s) ELSE int.s
      e == ENotation(frac)
  IN Return(e.s, NumberToken(e.s.contents, int.isFloat \/ e.taken))

\* peek && isBlockCommentOpen(ch, 0) && isBlockCommentOpen(peek, 1)
IsBlockComment(ch, pk) ==
  pk # Null /\ isBlockCommentOpen(ch, 0) /\ isBlockCommentOpen(pk, 1)

\* ch && peek && isBlockCommentClose(ch, 0) && isBlockCommentClose(peek, 1)
ClosesBlock(ch, pk) ==
  ch # Null /\ pk # Null /\ isBlockCommentClose(ch, 0)
    /\ isBlockCommentClose(pk, 1)

RECURSIVE CommentLoop(_, _, _)
\* ok is FALSE when the loop throws
CommentLoop(s, i, blockComment) ==
  LET p == peek(s)
      ch == cur(p)
  IN IF ~blockComment /\ (ch = Null \/ ~isComment(ch, i))
     THEN [s |-> p, ok |-> TRUE]
     ELSE LET a == AppendNext(p)
          IN IF blockComment
             THEN IF ch = Null THEN [s |-> a, ok |-> FALSE]
                  ELSE LET q == peek(a)
                       IN IF ClosesBlock(ch, cur(q))
                          THEN [s |-> AppendNext(q), ok |-> TRUE]
                          ELSE CommentLoop(q, i + 1, blockComment)
             ELSE CommentLoop(a, i + 1, blockComment)

\* (a variant of StartsNumber: a leading point starts no number)
StartsNumberNoPoint(ch, pk) == isDecimal(ch) \/ isSign(ch)

\* isDecimal(ch) || isSign(ch) || (ch === "." && peek && isDecimal(peek))
StartsNumber(ch, pk) ==
  isDecimal(ch) \/ isSign(ch) \/ (ch = "." /\ pk # Null /\ isDecimal(pk))

RECURSIVE scan(_)
\* scan(): the scanner after the call, what it returned (ret) or threw.
scan(s0) ==
  LET ch == cur(peek(s0))
      s1 == peek(next(s0))
      pk == cur(s1)
      s == [s1 EXCEPT !.startPos = <<s1.line, s1.column>>]
      c == [s EXCEPT !.contents = <<ch>>]
  IN IF ch = Null
     THEN Return([s EXCEPT !.contents = <<>>,
                           !.column = EofColumn(s.column),
                           !.startPos = <<s.line, EofColumn(s.column)>>],
                 "eof")
     ELSE IF isWhitespace(ch)
     THEN LET w == WhitespaceLoop(c)
          IN IF ~BitAnd(w.mode, scanWhitespace) THEN scan(w)
             ELSE Return(w, "whitespace")
     ELSE IF isIdent(ch, 0)
     THEN LET w == IdentLoop(c, 1)
          IN IF ~BitAnd(w.mode, scanIdents) THEN scan(w)
             ELSE Return(w, IF isKeyword(w.contents) THEN "keyword"
                            ELSE "identifier")
     ELSE IF isStringDelimiter(ch)
     THEN LET w == StringLoop(c, ch)
          IN IF ~w.ok THEN Throw(w.s, "literal not terminated")
             ELSE IF ~BitAnd(w.s.mode, scanStrings) THEN scan(w.s)
             ELSE Return(w.s, "string")
     ELSE IF StartsNumber(ch, pk)
     THEN IF ~BitAnd(s.mode, scanInts \cup scanFloats) THEN scan(s)
          ELSE Number(c, ch)
     ELSE IF isComment(ch, 0) \/ isBlockCommentOpen(ch, 0)
     THEN LET w == CommentLoop(c, 1, IsBlockComment(ch, pk))
          IN IF ~w.ok THEN Throw(w.s, "comment not terminated")
             ELSE IF ~BitAnd(w.s.mode, scanComments) THEN scan(w.s)
             ELSE Return(w.s, "comment")
     ELSE Return(c, "token")

-----------------------------------------------------------------------------
(* The scanner as a state machine: construction, then scan() calls.        *)

\* The scanner's fields as one record, and the outcome of one scan() on it.
Self ==
  [reader |-> reader, buffer |-> buffer, bufPos |-> bufPos, line |-> line,
   column |-> column, contents |-> contents, startPos |-> startPos,
   currentToken |-> currentToken, mode |-> mode]

\* get endPos()
endPos(s) == <<s.line, s.column>>

\* What a caller observes of one scan() call.
Outcome(r) ==
  [ret |-> r.ret, thrown |-> r.thrown, contents |-> r.s.contents,
   startPos |-> r.s.startPos, endPos |-> endPos(r.s),
   currentToken |-> r.s.currentToken]

EofCalls == Cardinality({i \in DOMAIN results : results[i].ret = "eof"})

\* The scanner's fields after a scan() call with the result r.
Scanned(r) ==
  /\ reader' = r.s.reader
  /\ buffer' = r.s.buffer
  /\ bufPos' = r.s.bufPos
  /\ line' = r.s.line
  /\ column' = r.s.column
  /\ contents' = r.s.contents
  /\ startPos' = r.s.startPos
  /\ currentToken' = r.s.currentToken
  /\ results' = Append(results, Outcome(r))
  /\ UNCHANGED <<mode, initMode, chunks, minRead>>

\* One scan() call, to its return or its throw.
Scan ==
  /\ EofCalls <= MaxEof
  /\ \E r \in {scan(Self)} : Scanned(r)
  /\ UNCHANGED <<generator, yielded, nextTokenIsCalls>>

Next == Scan

RECURSIVE Flatten(_)
\* The bytes of a sequence of chunks, in order.
Flatten(cs) == IF cs = <<>> THEN <<>> ELSE Head(cs) \o Flatten(Tail(cs))

RECURSIVE Splits(_)
\* Every way a reader may deliver the bytes in non-empty chunks.
Splits(text) ==
  IF text = <<>> THEN {<<>>}
  ELSE UNION {{<<SubSeq(text, 1, k)>> \o rest :
                 rest \in Splits(SubSeq(text, k + 1, Len(text)))} :
              k \in 1..Len(text)}

RECURSIVE Chunked(_, _)
\* A reader that fills a chunk buffer of n bytes on every read.
Chunked(text, n) ==
  IF Len(text) <= n THEN (IF text = <<>> THEN <<>> ELSE <<text>>)
  ELSE <<SubSeq(text, 1, n)>> \o Chunked(SubSeq(text, n + 1, Len(text)), n)

\* The deliveries for chunk buffers of 1, 2 and 512 bytes.
BufferSplits(text) == {Chunked(text, n) : n \in {1, 2, 512}}

\* The chunks with one read of zero bytes put before chunk k.
WithZeroRead(cs, k) ==
  SubSeq(cs, 1, k - 1) \o <<(<<>>)>> \o SubSeq(cs, k, Len(cs))

\* The deliveries of a reader that once reads zero bytes and then goes on.
FlakySplits(text) ==
  UNION {{WithZeroRead(c, k) : k \in 1..Len(c)} : c \in Splits(text)}

\* The ways a reader of the given kind delivers the text.
Deliveries(kind, text) ==
  CASE kind = "any" -> Splits(text)
    [] kind = "buffer" -> BufferSplits(text)
    [] kind = "flaky" -> FlakySplits(text)

\* init.minRead when the option is not given (0 and undefined are both
\* falsy)
NotGiven == 0

\* The length of new Uint8Array(init.minRead || 512)
chunkBuffer(m) == IF m = NotGiven THEN 512 ELSE m

\* The state after new Scanner(reader, {mode: m, minRead: r}), for a reader
\* of the kind that holds at most n bytes of the alphabet; no read delivers
\* more bytes than the chunk buffer holds.
ConstructedWith(alphabet, n, kind, modes, minReads) ==
  /\ \E k \in 0..n :
       \E text \in [1..k -> alphabet] : chunks \in Deliveries(kind, text)
  /\ minRead \in minReads
  /\ \A i \in DOMAIN chunks : Len(chunks[i]) <= chunkBuffer(minRead)
  /\ reader = chunks
  /\ initMode \in modes
  /\ generator = "suspendedStart"
  /\ yielded = <<>>
  /\ nextTokenIsCalls = <<>>
  /\ mode = ConstructorMode(initMode)
  /\ buffer = <<>>
  /\ bufPos = 0
  /\ line = 1
  /\ column = 0
  /\ contents = <<>>
  /\ currentToken = Null
  /\ startPos = <<0, 0>>
  /\ results = <<>>

\* The state after new Scanner(reader, {mode: m}).
Constructed(alphabet, n, kind, modes) ==
  ConstructedWith(alphabet, n, kind, modes, {NotGiven})

\* The scanner new Scanner(reader, {mode: m}) makes, as a record.
New(cs, m) ==
  [reader |-> cs, buffer |-> <<>>, bufPos |-> 0, line |-> 1, column |-> 0,
   contents |-> <<>>, startPos |-> <<0, 0>>, currentToken |-> Null,
   mode |-> ConstructorMode(m)]

RECURSIVE RunOutcomes(_, _)
\* The outcomes of successive scan() calls on s up to the first eof, n calls
\* at most.
RunOutcomes(s, n) ==
  IF n = 0 THEN <<>>
  ELSE LET r == scan(s)
       IN <<Outcome(r)>> \o
            (IF r.ret = "eof" THEN <<>> ELSE RunOutcomes(r.s, n - 1))

\* The characters the reader holds at construction: its bytes, decoded.
source == decode(Flatten(chunks))

RECURSIVE Pending(_)
\* The characters the chunks will be read as.
Pending(cs) == IF cs = <<>> THEN <<>> ELSE decode(Head(cs)) \o Pending(Tail(cs))

\* The characters the scanner receives from the reader in all: every chunk
\* as its own read decodes it.
received == Pending(chunks)

\* The characters not yet consumed.
Rest == SubSeq(buffer, bufPos + 1, Len(buffer)) \o Pending(reader)

AllTokens ==
  scanWhitespace \cup scanIdents \cup scanInts \cup scanFloats
    \cup scanStrings \cup scanComments

Alphabet == {"a", "1", "+", ".", "/", "*", "\"", "\n"}

Modes == {AllTokens, {}, scanWhitespace, scanInts \cup scanComments,
          scanIdents \cup scanStrings}

\* A reader that delivers the source in any chunks and then stays exhausted.
Init ==
  Constructed(Alphabet, MaxLen, "any", Modes)

Spec == Init /\ [][Next]_vars

\* A reader that reads zero bytes once before it has delivered everything.
InitFlaky ==
  Constructed({"a", " "}, MaxLen, "flaky", {AllTokens, {}})

SpecFlaky == InitFlaky /\ [][Next]_vars

-----------------------------------------------------------------------------
(* Helpers of the properties *)

RECURSIVE ConcatContents(_, _)
\* The contents of the first n outcomes, concatenated in order.
ConcatContents(rs, n) ==
  IF n = 0 THEN <<>> ELSE ConcatContents(rs, n - 1) \o rs[n].contents

IsPrefix(a, b) == Len(a) <= Len(b) /\ SubSeq(b, 1, Len(a)) = a

Threw(o) == o.thrown # NotThrown

\* No call among the first n threw.
NoThrowIn(rs, n) == \A i \in 1..n : ~Threw(rs[i])

\* The index of the first eof among the outcomes, 0 for none.
FirstEof(rs) ==
  IF \E i \in DOMAIN rs : rs[i].ret = "eof"
  THEN CHOOSE i \in DOMAIN rs :
         rs[i].ret = "eof" /\ \A j \in 1..(i - 1) : rs[j].ret # "eof"
  ELSE 0

-----------------------------------------------------------------------------
(* C1 *)

\* Every category enabled, a reader that delivers the source in chunks of
\* 1, 2 or 512 characters.
InitAll ==
  Constructed(Alphabet \cup {"\\"}, MaxLenAll, "buffer", {AllTokens})

SpecAll == InitAll /\ [][Next]_vars

\* Every category enabled, a source that holds a character of two bytes,
\* delivered in any chunks.
InitBytes ==
  Constructed({"a", " ", LeadByte, ContinuationByte}, MaxLen, "any",
              {AllTokens})

SpecBytes == InitBytes /\ [][Next]_vars

\* C1: with all six categories enabled, as long as no scan() call has
\* thrown, the contents of the tokens returned so far, concatenated in
\* order, are exactly the characters consumed so far (a prefix of the
\* source, with nothing dropped, duplicated or added); at the first eof
\* they are the whole source; and when a call throws, the contents of the
\* tokens returned before it are a prefix of the source.  (Stated of the
\* latest call: every earlier call was the latest one in an earlier state.)
C1_Lossless ==
  (mode = AllTokens /\ results # <<>>) =>
    LET k == Len(results)
    IN
      /\ NoThrowIn(results, k) =>
           /\ IsPrefix(ConcatContents(results, k), source)
           /\ results[k].ret = "eof" =>
                ConcatContents(results, k) = source
      /\ (NoThrowIn(results, k - 1) /\ Threw(results[k])) =>
           IsPrefix(ConcatContents(results, k - 1), source)

-----------------------------------------------------------------------------
(* C2 *)

-----------------------------------------------------------------------------
(* C4 *)

\* C4: once scan() has returned eof, no later scan() returns anything but
\* eof, whatever the reader delivers on further reads.
C4_StickyEof ==
  \A i, j \in DOMAIN results :
    (i < j /\ results[i].ret = "eof") => results[j].ret = "eof"

-----------------------------------------------------------------------------
(* C8 *)

\* C8: whatever scan() throws is a SyntaxError.
C8_ThrowsSyntaxError ==
  \A i \in DOMAIN results :
    Threw(results[i]) => results[i].thrown.name = "SyntaxError"

-----------------------------------------------------------------------------
(* C3, C5 *)

\* The category, contents and span of an outcome (and what it threw).
View(o) ==
  [ret |-> o.ret, contents |-> o.contents, startPos |-> o.startPos,
   endPos |-> o.endPos, thrown |-> o.thrown]

Views(rs) == [i \in DOMAIN rs |-> View(rs[i])]

\* The outcomes without the tokens of the categories.
Without(rs, cats) ==
  LET Keep(o) == o.ret \notin cats
  IN SelectSeq(rs, Keep)

\* The categories a mode bit (ints and floats together) governs.
Categories ==
  {[bits |-> scanWhitespace, tokens |-> {"whitespace"}],
   [bits |-> scanIdents, tokens |-> {"identifier", "keyword"}],
   [bits |-> scanInts \cup scanFloats, tokens |-> {"int", "float"}],
   [bits |-> scanStrings, tokens |-> {"string"}],
   [bits |-> scanComments, tokens |-> {"comment"}]}

\* The run of this source, delivered the same way, under mode m.
RunUnder(m) == RunOutcomes(New(chunks, m), Len(Flatten(chunks)) + 1)

\* The latest call returned the first eof of the run.
AtFirstEof == results # <<>> /\ FirstEof(results) = Len(results)

\* C3: the tokens produced under a mode M' that is a mode M with one
\* category cleared are the tokens produced under M with the tokens of that
\* category deleted, every other token with the same category, contents,
\* startPos and endPos.  (Stated for the modes M' given to the constructor
\* that are not 0.)
C3_DisablingOnlyRemoves ==
  (AtFirstEof /\ initMode # {}) =>
    \A c \in Categories :
      (c.bits \cap mode = {}) =>
        Views(results) = Without(Views(RunUnder(mode \cup c.bits)), c.tokens)

\* C5: a token that scan() returns as `token` when all categories are
\* enabled is returned as `token`, with the same contents and startPos,
\* under every mode.
C5_TokenAlwaysEmitted ==
  AtFirstEof =>
    LET all == RunUnder(AllTokens)
    IN \A i \in DOMAIN all :
         all[i].ret = "token" =>
           \E k \in DOMAIN results :
             /\ results[k].ret = "token"
             /\ results[k].contents = all[i].contents
             /\ results[k].startPos = all[i].startPos

-----------------------------------------------------------------------------
(* C6 *)

HasDigit(text) == \E i \in DOMAIN text : text[i] \in Digit

\* C6: with ints or floats enabled, a scan() that returns a text that
\* starts with a sign and holds no decimal digit returns `token` with the
\* sign alone as contents, never `int` or `float`.
C6_LoneSignIsToken ==
  \A k \in DOMAIN results :
    ( /\ BitAnd(mode, scanInts \cup scanFloats)
      /\ results[k].ret \in Token \ {"eof"}
      /\ isSign(results[k].contents[1])
      /\ ~HasDigit(results[k].contents) ) =>
        /\ results[k].ret = "token"
        /\ Len(results[k].contents) = 1

-----------------------------------------------------------------------------
(* C7 *)

\* The text opens a string literal that a raw newline or the end of the
\* text cuts off before a closing delimiter (the opening delimiter again,
\* not preceded by a backslash).
StringUnterminated(text) ==
  /\ text # <<>>
  /\ isStringDelimiter(text[1])
  /\ LET stops == {j \in 2..Len(text) :
                     \/ text[j] = "\n"
                     \/ (text[j] = text[1] /\ text[j - 1] # "\\")}
     IN \A j \in stops : \E h \in stops : h <= j /\ text[h] = "\n"

\* The text opens a block comment and holds no close marker after the
\* opener.
BlockUnterminated(text) ==
  /\ Len(text) >= 2
  /\ text[1] = "/"
  /\ text[2] = "*"
  /\ ~\E j \in 3..(Len(text) - 1) : text[j] = "*" /\ text[j + 1] = "/"

\* What the latest call consumed of the source for the construct it threw
\* on, followed by the rest of the source.
ThrownOn ==
  LET o == results[Len(results)]
      n == IF o.thrown.message = "comment not terminated"
           THEN Len(o.contents) - Len(AsText(Null))
           ELSE Len(o.contents)
      from == Len(source) - Len(Rest) - n
  IN SubSeq(source, from + 1, Len(source))

\* C7, for one scan() call from a state with the characters R left.
C7_Call ==
  LET R == Rest
      msg == results'[Len(results')].thrown.message
  IN /\ StringUnterminated(R) => msg = "literal not terminated"
     /\ BlockUnterminated(R) => msg = "comment not terminated"
     /\ msg \in {"", "literal not terminated", "comment not terminated"}
     /\ msg = "literal not terminated" => StringUnterminated(ThrownOn')
     /\ msg = "comment not terminated" =>
          (BlockUnterminated(ThrownOn') /\ Rest' = <<>>)
     /\ (mode = AllTokens /\ msg # "") =>
          (StringUnterminated(R) \/ BlockUnterminated(R))

\* C7: scan() throws "literal not terminated" iff a raw newline or the end
\* of the source comes before the closing delimiter of a string it has
\* opened, and "comment not terminated" iff the source ends inside a block
\* comment before its close marker; it throws nothing else, and it throws
\* these also when strings or comments are disabled.
C7_ErrorsExact == [][C7_Call]_vars

-----------------------------------------------------------------------------
(* C9 *)

\* Sources of delimiters, backslashes, newlines and letters, strings
\* enabled.
InitStr ==
  Constructed({"\"", "'", "\\", "\n", "a"}, MaxLenStr, "buffer",
              {AllTokens, {}})

SpecStr == InitStr /\ [][Next]_vars

\* The characters consumed so far.
Consumed == SubSeq(source, 1, Len(source) - Len(Rest))

\* Character j of the text is the delimiter d, not preceded by a backslash.
Unescaped(text, d, j) == text[j] = d /\ text[j - 1] # "\\"

\* C9: a `string` token is the source text from a delimiter d to the first
\* later d that no backslash immediately precedes: it starts with d, ends
\* with that d, holds no raw newline, and every d inside it follows a
\* backslash (so a backslash and the d after it are both kept and do not
\* close, and another delimiter character does not close).  (Stated of the
\* latest call.)
C9_StringClosing ==
  (results # <<>> /\ results[Len(results)].ret = "string") =>
    LET c == results[Len(results)].contents
        n == Len(c)
    IN /\ n >= 2
       /\ isStringDelimiter(c[1])
       /\ c = SubSeq(Consumed, Len(Consumed) - n + 1, Len(Consumed))
       /\ Unescaped(c, c[1], n)
       /\ \A j \in 2..(n - 1) : ~Unescaped(c, c[1], j)
       /\ \A j \in 1..n : c[j] # "\n"

\* A string token that holds an escaped delimiter and another delimiter.
C9_Witness ==
  /\ results # <<>>
  /\ results[Len(results)].ret = "string"
  /\ LET c == results[Len(results)].contents
     IN /\ \E j \in 2..(Len(c) - 2) : c[j] = "\\" /\ c[j + 1] = c[1]
        /\ \E j \in 2..(Len(c) - 1) : isStringDelimiter(c[j]) /\ c[j] # c[1]

-----------------------------------------------------------------------------
(* C10 *)

\* Sources of digits and points, floats enabled.
InitNum ==
  Constructed({"0", "1", "."}, MaxLenNum, "buffer", {{}, scanFloats})

SpecNum == InitNum /\ [][Next]_vars

Points(text) == {j \in DOMAIN text : text[j] = "."}

\* Three or more runs of decimal digits with single points between them.
Chained(text) ==
  /\ text # <<>>
  /\ \A j \in DOMAIN text : text[j] = "." \/ text[j] \in Digit
  /\ text[1] # "."
  /\ text[Len(text)] # "."
  /\ \A j \in Points(text) : (j + 1) \notin Points(text)
  /\ Cardinality(Points(text)) >= 2

\* Where the tokens of a chained text start: at its first character and at
\* every point but the first.
ChainStarts(text) ==
  {1} \cup {j \in Points(text) : \E h \in Points(text) : h < j}

\* The i-th smallest element of a set of numbers.
Nth(S, i) == CHOOSE a \in S : Cardinality({b \in S : b < a}) = i - 1

\* C10: with floats enabled, a source d1.d2.d3...dk of k >= 3 digit runs is
\* returned, with nothing thrown, as the float d1.d2, then one float .di
\* for each i from 3 to k, each from the character after the previous one
\* to the character before the next point, and then eof.
C10_ChainedPoints ==
  (AtFirstEof /\ BitAnd(mode, scanFloats) /\ Chained(source)) =>
    LET S == ChainStarts(source)
        k == Cardinality(S)
        last(i) == IF i = k THEN Len(source) ELSE Nth(S, i + 1) - 1
    IN /\ Len(results) = k + 1
       /\ \A i \in 1..k :
            /\ results[i].ret = "float"
            /\ results[i].thrown = NotThrown
            /\ results[i].contents = SubSeq(source, Nth(S, i), last(i))
            /\ results[i].startPos = <<1, Nth(S, i)>>
            /\ results[i].endPos = <<1, last(i)>>

\* Four digit runs, returned as three floats and an eof.
C10_Witness ==
  /\ AtFirstEof
  /\ BitAnd(mode, scanFloats)
  /\ Chained(source)
  /\ Cardinality(Points(source)) = 3
  /\ Len(results) = 4

-----------------------------------------------------------------------------
(* C11 *)

\* C11: scan() returns `float` only if the scanFloats bit is set in the
\* mode, also for a literal that begins with a point followed by a digit.
C11_FloatNeedsScanFloats ==
  \A i \in DOMAIN results :
    results[i].ret = "float" => BitAnd(mode, scanFloats)

-----------------------------------------------------------------------------
(* C12 *)

\* longest source of hex literals
MaxLenHex == 5

\* Sources of hex digits, base markers and points, floats enabled.
InitHex ==
  Constructed({"0", "1", "x", "."}, MaxLenHex, "buffer",
              {{}, scanInts \cup scanFloats})

SpecHex == InitHex /\ [][Next]_vars

\* The text starts with the hex prefix.
HexPrefixed(text) ==
  Len(text) >= 2 /\ text[1] = "0" /\ text[2] \in {"x", "X"}

-----------------------------------------------------------------------------
(* C13 *)

Newlines(text) == {j \in DOMAIN text : text[j] = "\n"}

\* The index of the last newline of the text, 0 for none.
LastNewline(text) ==
  IF Newlines(text) = {} THEN 0
  ELSE CHOOSE j \in Newlines(text) : \A h \in Newlines(text) : h <= j

\* The position after the text: (1 + the number of its newlines, the number
\* of characters after its last newline).
PositionAfter(text) ==
  <<1 + Cardinality(Newlines(text)), Len(text) - LastNewline(text)>>

\* Position a is not after position b.
NotAfter(a, b) == a[1] < b[1] \/ (a[1] = b[1] /\ a[2] <= b[2])

\* C13: after every scan() call, whether it returned a token, returned eof
\* or threw, endPos is (1 + the number of newlines consumed so far, the
\* number of characters consumed since the last consumed newline), and it
\* is not before the endPos after the previous call.  (Stated of the latest
\* call; it covers a newline inside a block comment and the characters
\* consumed before an error.)
C13_PositionCounts ==
  results # <<>> =>
    LET k == Len(results)
    IN /\ results[k].endPos = PositionAfter(Consumed)
       /\ k > 1 => NotAfter(results[k - 1].endPos, results[k].endPos)

-----------------------------------------------------------------------------
(* C14: the scanner as an async iterator *)

\* (a variant of IterEnds: the generator returns after any token)
IterEndsAlways(tok) == TRUE

\* if (tok === Token.eof) return
IterEnds(tok) == tok = "eof"

\* The generator is suspended at its yield and will return when resumed.
AboutToReturn ==
  generator = "suspendedYield" /\ IterEnds(yielded[Len(yielded)].tok)

\* next() of the generator, up to `yield tok`: one scan(), whose error ends
\* the generator.
IterScan ==
  /\ generator # "completed"
  /\ ~AboutToReturn
  /\ \E r \in {scan(Self)} :
        /\ Scanned(r)
        /\ IF r.thrown # NotThrown
           THEN generator' = "completed" /\ yielded' = yielded
           ELSE /\ generator' = "suspendedYield"
                /\ yielded' = Append(yielded,
                     [tok |-> r.ret, currentToken |-> r.s.currentToken])
  /\ UNCHANGED nextTokenIsCalls

\* next() of the generator resumed after it has yielded eof: it returns.
IterReturn ==
  /\ AboutToReturn
  /\ generator' = "completed"
  /\ UNCHANGED <<reader, buffer, bufPos, line, column, contents,
                 currentToken, startPos, mode, initMode, chunks, results,
                 minRead, yielded, nextTokenIsCalls>>

NextIter == IterScan \/ IterReturn

\* A scanner handed to `for await (const token of scanner)`, which resumes
\* the generator until it is done.
InitIter ==
  Constructed(Alphabet, MaxLen, "buffer", {AllTokens, {}})

SpecIter == InitIter /\ [][NextIter]_vars

\* C14: iterating a scanner with `for await` yields the results of
\* successive scan() calls in order, every element but the last a non-eof
\* token, with currentToken equal to the yielded token at each yield; once
\* eof is yielded no further scan() is made, a generator that is done
\* without an error has yielded eof as its last element, and the iteration
\* makes at most one scan() per character it reads and one more.
C14_IteratesToEof ==
  /\ Len(yielded) <= Len(results)
  /\ Len(results) <= Len(received) + 1
  /\ \A i \in DOMAIN yielded :
       /\ yielded[i].tok = results[i].ret
       /\ yielded[i].currentToken = yielded[i].tok
       /\ i < Len(yielded) => yielded[i].tok \in Token \ {"eof"}
  /\ (yielded # <<>> /\ yielded[Len(yielded)].tok = "eof") =>
       Len(results) = Len(yielded)
  /\ ( /\ generator = "completed"
       /\ (results = <<>> \/ ~Threw(results[Len(results)])) ) =>
         (yielded # <<>> /\ yielded[Len(yielded)].tok = "eof")

\* An iteration that is done after two tokens and eof.
C14_Witness ==
  /\ generator = "completed"
  /\ Len(yielded) = 3
  /\ yielded[1].tok # yielded[2].tok
  /\ yielded[3].tok = "eof"

-----------------------------------------------------------------------------
(* C15 *)

\* longest source of comments and whitespace
MaxLenCom == 5

\* Sources of comment markers, whitespace and a letter, scanned in the
\* default mode (no mode given, or defaultTokens given).
InitCom ==
  Constructed({"/", "*", "\n", " ", "a"}, MaxLenCom, "buffer",
              {{}, defaultTokens})

SpecCom == InitCom /\ [][Next]_vars

\* The text is one line comment, or one block comment whose only close
\* marker is at its end (a `/` right after the opener, which the scanner
\* takes as a close marker, is the subject of C23).
OnlyComment(text) ==
  \/ /\ Len(text) >= 2
     /\ text[1] = "/"
     /\ text[2] = "/"
     /\ Newlines(text) = {}
  \/ /\ Len(text) >= 4
     /\ text[1] = "/"
     /\ text[2] = "*"
     /\ \A j \in 2..(Len(text) - 1) :
          (text[j] = "*" /\ text[j + 1] = "/") <=> j = Len(text) - 1

-----------------------------------------------------------------------------
(* C16: TokenError and nextTokenIs of the helpers.  An optional argument   *)
(* is <<>> when it is not given and <<v>> when it is v; a message is the   *)
(* sequence of its pieces.                                                 *)

\* nextTokenIs() calls made on one scanner
MaxCalls == 2

\* Token[n]: the name of the member with the value n
TokenName(n) == CHOOSE t \in Token : TokenValue(t) = n

\* `line ${scanner.startPos[0]}, column ${scanner.startPos[1]}`
longPosition(s) ==
  <<"line ", ToString(s.startPos[1]), ", column ", ToString(s.startPos[2])>>

\* new TokenError(scanner, actualToken, expectedToken, expectedContents)
TokenError(s, actualToken, expectedToken, expectedContents) ==
  LET message == <<"unexpected ", TokenName(TokenValue(actualToken))>>
      contentsPart ==
        IF s.contents # <<>> THEN <<" (">> \o s.contents \o <<")">> ELSE <<>>
      expected ==
        IF expectedToken # <<>> /\ TokenValue(expectedToken[1]) # 0
        THEN <<"; expected ", TokenName(TokenValue(expectedToken[1]))>> \o
               (IF expectedContents # <<>>
                THEN <<" ">> \o expectedContents[1] ELSE <<>>)
        ELSE <<>>
  IN [name |-> "TokenError",
      message |-> message \o contentsPart \o <<" on ">> \o longPosition(s)
                    \o expected]

\* What nextTokenIs throws after its scan() returned actualToken, if it
\* throws.
Mismatch(s, actualToken, expectedToken, expectedContents) ==
  LET wantsContents == expectedContents # <<>>
      sameContents == ~wantsContents \/ expectedContents[1] = s.contents
      sameTokens == actualToken = expectedToken
  IN IF ~sameTokens \/ ~sameContents
     THEN TokenError(s, actualToken, <<expectedToken>>, expectedContents)
     ELSE NotThrown

\* nextTokenIs(scanner, expectedToken, expectedContents): one scan(), whose
\* error it lets through, then the comparison.
NextTokenIs(expectedToken, expectedContents) ==
  /\ Len(nextTokenIsCalls) < MaxCalls
  /\ \E r \in {scan(Self)} :
        /\ Scanned(r)
        /\ nextTokenIsCalls' = Append(nextTokenIsCalls,
             [expectedToken |-> expectedToken,
              expectedContents |-> expectedContents,
              actualToken |-> r.ret,
              contents |-> r.s.contents,
              thrown |-> IF r.thrown # NotThrown THEN r.thrown
                         ELSE Mismatch(r.s, r.ret, expectedToken,
                                       expectedContents)])
  /\ UNCHANGED <<generator, yielded>>

NextHelpers ==
  \E expectedToken \in Token :
    \E expectedContents \in {<<>>, <<(<<"a">>)>>} :
      NextTokenIs(expectedToken, expectedContents)

\* A scanner that is read through nextTokenIs only.
InitHelpers ==
  Constructed({"a", "+"}, MaxLen, "buffer", {AllTokens})

SpecHelpers == InitHelpers /\ [][NextHelpers]_vars

\* The text ends with the suffix.
EndsWith(text, suffix) ==
  /\ Len(suffix) <= Len(text)
  /\ SubSeq(text, Len(text) - Len(suffix) + 1, Len(text)) = suffix

\* C16: nextTokenIs throws a TokenError exactly when the category scan()
\* returned, or the contents if contents are expected, differ from the
\* expectation, and the message of that TokenError ends with
\* `; expected <category>`, followed by the expected contents when they are
\* given, for every expected category, `token` and `eof` included.
C16_ReportsExpected ==
  \A i \in DOMAIN nextTokenIsCalls :
    LET c == nextTokenIsCalls[i]
        differs ==
          \/ c.actualToken # c.expectedToken
          \/ (c.expectedContents # <<>> /\ c.expectedContents[1] # c.contents)
    IN c.thrown.name # "Error" =>
         /\ c.thrown.name = "TokenError" <=> differs
         /\ c.thrown.name = "TokenError" =>
              EndsWith(c.thrown.message,
                       <<"; expected ", c.expectedToken>> \o
                         (IF c.expectedContents # <<>>
                          THEN <<" ">> \o c.expectedContents[1] ELSE <<>>))

-----------------------------------------------------------------------------
(* C17 *)

\* The position of character j of the text: its line, and its 1-based
\* column on that line.
PositionOf(text, j) ==
  LET before == SubSeq(text, 1, j - 1)
  IN <<1 + Cardinality(Newlines(before)), j - LastNewline(before)>>

\* C17: for every non-eof token scan() returns, startPos is the position of
\* the token's first character (its line, its 1-based column on that line),
\* also when tokens of disabled categories were skipped before it; and for
\* a token of n characters that holds no newline, endPos is on the same
\* line, at column startPos.column + n - 1.  (Stated of the latest call.)
C17_StartPosIsFirstChar ==
  (results # <<>> /\ results[Len(results)].ret \in Token \ {"eof"}) =>
    LET o == results[Len(results)]
        n == Len(o.contents)
        first == Len(Consumed) - n + 1
    IN /\ o.contents = SubSeq(Consumed, first, Len(Consumed))
       /\ o.startPos = PositionOf(source, first)
       /\ Newlines(o.contents) = {} =>
            o.endPos = <<o.startPos[1], o.startPos[2] + n - 1>>

\* The position reached from pos by consuming the text.
Advance(pos, text) ==
  IF Newlines(text) = {} THEN <<pos[1], pos[2] + Len(text)>>
  ELSE <<pos[1] + Cardinality(Newlines(text)), Len(text) - LastNewline(text)>>

\* C17 as amended, for one scan() call: the characters the call consumed
\* end with the contents of the token it returns, and startPos is the
\* position the cursor has right after the first character of the token
\* is consumed, counted from the cursor's position before the call over
\* the skipped characters and that first character.
C17_Call ==
  LET o == results'[Len(results')]
      taken == SubSeq(Rest, 1, Len(Rest) - Len(Rest'))
      n == Len(o.contents)
      lead == SubSeq(taken, 1, Len(taken) - n + 1)
  IN o.ret \in Token \ {"eof"} =>
       /\ n >= 1
       /\ n <= Len(taken)
       /\ o.contents = SubSeq(taken, Len(taken) - n + 1, Len(taken))
       /\ o.startPos = Advance(<<line, column>>, lead)
       /\ Newlines(o.contents) = {} =>
            o.endPos = <<o.startPos[1], o.startPos[2] + n - 1>>

\* C17, amended: for every non-eof token scan() returns, startPos is the
\* position of the cursor right after the token's first character was
\* consumed: the line and the 1-based column of that character, and for a
\* token whose first character is a newline (the line after it, 0); tokens
\* skipped before it leave it the position of the returned token; for a
\* token of n characters that holds no newline, endPos is on the same line
\* at column startPos.column + n - 1.
C17_StartPosAfterFirstChar == [][C17_Call]_vars

\* A whitespace token that starts with a newline, after an earlier call.
C17_Witness ==
  /\ Len(results) >= 2
  /\ results[Len(results)].ret = "whitespace"
  /\ results[Len(results)].contents[1] = "\n"
  /\ results[Len(results)].startPos = <<2, 0>>

-----------------------------------------------------------------------------
(* C18 *)

\* longest source of the scanners constructed with minRead
MaxLenMin == 4

\* Scanners constructed with no minRead, with minRead 1 and with minRead 3,
\* on readers that deliver in any chunks the chunk buffer can hold.
InitMinRead ==
  ConstructedWith({"a", " "}, MaxLenMin, "any", {AllTokens},
                  {NotGiven, 1, 3})

SpecMinRead == InitMinRead /\ [][Next]_vars

\* The minimum the scanner was constructed with: the minRead option, 2 when
\* it is not given.
ConfiguredMinimum == IF minRead = NotGiven THEN 2 ELSE minRead

\* C18: after a refill that did not hit exhaustion (the reader still holds
\* chunks, so the last read of the refill did not return null), the buffer
\* holds at least the configured minimum of characters.
C18_RefillThreshold ==
  (results # <<>> /\ reader # <<>>) => Len(buffer) >= ConfiguredMinimum

-----------------------------------------------------------------------------
(* C19 *)

\* C19, for one scan() call: it returns one token category or throws one of
\* the two lexical errors, and a call that does not return eof has consumed
\* at least one character.
C19_Call ==
  LET o == results'[Len(results')]
  IN /\ \/ o.ret \in Token /\ o.thrown = NotThrown
        \/ /\ o.ret = Null
           /\ o.thrown.message \in
                {"literal not terminated", "comment not terminated"}
     /\ o.ret # "eof" => Len(Rest') < Len(Rest)

\* On a source that is read as n characters eof is returned after at most
\* n + 1 calls.
C19_Bound ==
  IF FirstEof(results) = 0 THEN Len(results) <= Len(received)
  ELSE FirstEof(results) <= Len(received) + 1

\* C19: on every finite source and for every mode each scan() call ends by
\* returning exactly one token category or by throwing one of the two
\* lexical errors; every call that returns a non-eof token (or throws) has
\* consumed at least one character, so that eof is returned after at most
\* n + 1 calls on a source of n characters (the characters as the reads
\* decode them), skipped categories included.
C19_TotalAndProgress == []C19_Bound /\ [][C19_Call]_vars

\* Three calls that each returned a one-character token, then eof.
C19_Witness ==
  /\ Len(received) = 3
  /\ Len(results) = 4
  /\ FirstEof(results) = 4
  /\ \A i \in 1..3 : results[i].ret \in Token \ {"eof"}

-----------------------------------------------------------------------------
(* C20 *)

\* The bytes are the UTF-8 encoding of a character sequence.
WellFormed(bytes) ==
  \A j \in DOMAIN decode(bytes) : decode(bytes)[j] # Replacement

\* The reader that delivers all the bytes in one read.
AtOnce(cs) == IF Flatten(cs) = <<>> THEN <<>> ELSE <<Flatten(cs)>>

\* C20: for a fixed character sequence and mode, the sequence of (category,
\* contents, startPos, endPos) that scan() produces up to eof is the same
\* for every way the reader splits the sequence into non-empty chunks: it
\* is what the scanner produces when the whole input is read at once.
C20_ChunkIndependent ==
  (AtFirstEof /\ WellFormed(Flatten(chunks))) =>
    Views(results) =
      Views(RunOutcomes(New(AtOnce(chunks), initMode),
                        Len(Flatten(chunks)) + 1))

-----------------------------------------------------------------------------
(* C21 *)

\* C21: with comments enabled, every `comment` token scan() returns has
\* contents that start with `//` or with `/*`; a `/` followed by neither
\* `/` nor `*` is not returned as a comment.
C21_CommentHasOpener ==
  \A i \in DOMAIN results :
    results[i].ret = "comment" =>
      /\ Len(results[i].contents) >= 2
      /\ results[i].contents[1] = "/"
      /\ results[i].contents[2] \in {"/", "*"}

-----------------------------------------------------------------------------
(* C22 *)

BaseMarkers == {"x", "X", "o", "O", "b", "B"}

\* C22: a numeric literal is locked to the hex, octal or binary base only
\* when its first character is `0` and its second character is the base
\* marker: every `int` token whose second character is a base marker
\* starts with `0`, and `x`, `X`, `o`, `O` occur in an `int` token only as
\* its second character.
C22_BaseNeedsZero ==
  \A i \in DOMAIN results :
    results[i].ret = "int" =>
      LET c == results[i].contents
      IN /\ (Len(c) >= 2 /\ c[2] \in BaseMarkers) => c[1] = "0"
         /\ \A j \in DOMAIN c : c[j] \in {"x", "X", "o", "O"} => j = 2

-----------------------------------------------------------------------------
(* C23 *)

\* C23: a block comment is closed only by a `*/` that lies after the
\* opener `/*`: every `comment` token that starts with `/*` has at least 4
\* characters and ends with `*/`, and on the source `/*/` the first scan()
\* throws the unterminated-comment error.
C23_CloserAfterOpener ==
  /\ \A i \in DOMAIN results :
       LET c == results[i].contents
       IN (results[i].ret = "comment" /\ Len(c) >= 2 /\ c[2] = "*") =>
            /\ Len(c) >= 4
            /\ c[Len(c) - 1] = "*"
            /\ c[Len(c)] = "/"
  /\ (source = <<"/", "*", "/">> /\ results # <<>>) =>
       results[1].thrown.message = "comment not terminated"

-----------------------------------------------------------------------------
(* C24 *)

\* C24: the mode given to the constructor alone decides which categories
\* are returned: scan() returns a token of a category among whitespace,
\* identifier/keyword, int/float, string and comment only if a bit of that
\* category is set in the given mode; with the mode 0 given it returns
\* only `token` and `eof`.
C24_GivenModeDecides ==
  \A i \in DOMAIN results :
    /\ \A c \in Categories :
         results[i].ret \in c.tokens => BitAnd(initMode, c.bits)
    /\ (initMode = {} /\ ~Threw(results[i])) =>
         results[i].ret \in {"token", "eof"}

====
